---- MODULE Spec2Model ----
(***************************************************************************)
(* Expression / Polynomial / Polynomial2 components of hyperspy.           *)
(*                                                                         *)
(* One component object is modelled at a time (variable comp); it is built *)
(* by one of the three constructors and then driven by the public          *)
(* operations: compile_function, parameter assignment, grad_coefficients   *)
(* and estimate_parameters.                                                *)
(*                                                                         *)
(* Conventions                                                             *)
(*  - a Python str used as an identifier is a sequence of one-character    *)
(*    strings, so that str ordering (sort by name) and zfill are computed; *)
(*  - a sympy expression is a tree of records (Num, Sym, Add, Mul, Pow,    *)
(*    Fn); a formula string is given by its syntax tree and sympify is the *)
(*    automatic evaluation sympy applies while building the expression;    *)
(*  - numbers are integers; angles are counted in quarter turns so that    *)
(*    cos and sin are exact;                                               *)
(*  - a numpy array is a shape and a flat C-ordered buffer, so transpose   *)
(*    permutes the buffer and reshape only reinterprets it;                *)
(*  - np.polyfit is not evaluated numerically: the coefficient it returns  *)
(*    for one column is the term Lsq(xs, ys, order, row), row 0 being the  *)
(*    highest degree, and dividing by the axis scale multiplies the term's *)
(*    denominator.                                                         *)
(***************************************************************************)
EXTENDS Integers, Sequences, FiniteSets, TLC

VARIABLES comp, signal, result

vars == <<comp, signal, result>>

(***************************************************************************)
(* Bounds of the model                                                     *)
(***************************************************************************)
SmallOrder == 2     \* polynomial orders 0..SmallOrder are explored ...
BigOrder == 10      \* ... and BigOrder, whose parameter names are zero padded
MaxNav == 2         \* navigation positions of a signal: 1..MaxNav
NumSamples == 2     \* samples on the signal axis
MaxScale == 2       \* axis scale: 2..MaxScale
MaxValue == 1       \* parameter values assigned by the user: 0..MaxValue
MaxX == 2           \* sample coordinates passed to evaluators: 0..MaxX

Orders == (0..SmallOrder) \cup {BigOrder}

(***************************************************************************)
(* Python str: comparison, str(int), zfill                                 *)
(***************************************************************************)
Alphabet ==
  <<"0", "1", "2", "3", "4", "5", "6", "7", "8", "9", "_",
    "a", "b", "c", "d", "e", "f", "g", "h", "i", "j", "k", "l", "m",
    "n", "o", "p", "q", "r", "s", "t", "u", "v", "w", "x", "y", "z">>

\* rank of a character in code-point order (digits < "_" < lower case)
Ord(c) == CHOOSE i \in 1..Len(Alphabet) : Alphabet[i] = c

\* s < t for Python str
StrLess(s, t) ==
  \/ \E i \in 1..Len(s) :
       /\ i <= Len(t)
       /\ \A j \in 1..(i - 1) : s[j] = t[j]
       /\ Ord(s[i]) < Ord(t[i])
  \/ /\ Len(s) < Len(t)
     /\ \A j \in 1..Len(s) : s[j] = t[j]

DigitChar(d) == Alphabet[d + 1]

RECURSIVE Str(_)
\* str(n) for n >= 0
Str(n) == IF n < 10 THEN <<DigitChar(n)>>
          ELSE Str(n \div 10) \o <<DigitChar(n % 10)>>

RECURSIVE ZFill(_, _)
\* s.zfill(width)
ZFill(s, width) == IF Len(s) >= width THEN s ELSE ZFill(<<"0">> \o s, width)

RECURSIVE SortByName(_)
\* list.sort(key=name) of a collection of distinct names
SortByName(S) ==
  IF S = {} THEN <<>>
  ELSE LET m == CHOOSE n \in S : \A o \in S \ {n} : StrLess(n, o)
       IN  <<m>> \o SortByName(S \ {m})

Reverse(s) == [i \in 1..Len(s) |-> s[Len(s) + 1 - i]]

SeqToSet(s) == {s[i] : i \in 1..Len(s)}

\* F(v), with v evaluated once (a local variable of the code)
With(v, F(_)) == CHOOSE r \in {F(x) : x \in {v}} : TRUE

\* identifiers used by the formulas of the model
n_x == <<"x">>
n_y == <<"y">>
n_a == <<"a">>
n_b == <<"b">>
n_x0 == <<"x", "0">>
n_y0 == <<"y", "0">>
n_a0 == <<"a", "0">>
n_zz == <<"z", "z">>
n_name == <<"n", "a", "m", "e">>
n_function == <<"f", "u", "n", "c", "t", "i", "o", "n">>
n_grad_a == <<"g", "r", "a", "d", "_", "a">>
n__f == <<"_", "f">>
n_is2D == <<"_", "i", "s", "2", "D">>
n_parameters == <<"p", "a", "r", "a", "m", "e", "t", "e", "r", "s">>
n_position == <<"_", "p", "o", "s", "i", "t", "i", "o", "n">>
n_position_x == <<"_", "p", "o", "s", "i", "t", "i", "o", "n", "_", "x">>
n_position_y == <<"_", "p", "o", "s", "i", "t", "i", "o", "n", "_", "y">>
n_coefficients == <<"c", "o", "e", "f", "f", "i", "c", "i", "e", "n", "t", "s">>
p_f_grad_ == <<"_", "f", "_", "g", "r", "a", "d", "_">>
p_grad_ == <<"g", "r", "a", "d", "_">>
n_rotation_angle ==
  <<"r", "o", "t", "a", "t", "i", "o", "n", "_", "a", "n", "g", "l", "e">>

(***************************************************************************)
(* sympy expressions                                                       *)
(***************************************************************************)
Num(v) == [op |-> "num", v |-> v]
Sym(name) == [op |-> "sym", name |-> name]
Fn(f, u) == [op |-> "fn", f |-> f, u |-> u]
SyntaxError == [op |-> "syntax_error"]

\* Add, Mul and Pow evaluate automatically: 0 + e, 1 * e, 0 * e, e**0, e**1
Add(l, r) ==
  IF l = Num(0) THEN r
  ELSE IF r = Num(0) THEN l
  ELSE IF l.op = "num" /\ r.op = "num" THEN Num(l.v + r.v)
  ELSE [op |-> "add", l |-> l, r |-> r]

Mul(l, r) ==
  IF l = Num(0) \/ r = Num(0) THEN Num(0)
  ELSE IF l = Num(1) THEN r
  ELSE IF r = Num(1) THEN l
  ELSE IF l.op = "num" /\ r.op = "num" THEN Num(l.v * r.v)
  ELSE [op |-> "mul", l |-> l, r |-> r]

Pow(b, k) ==
  IF k = 0 THEN Num(1)
  ELSE IF k = 1 THEN b
  ELSE [op |-> "pow", b |-> b, k |-> k]

Neg(e) == Mul(Num(-1), e)
Sub(l, r) == Add(l, Neg(r))

\* the syntax tree of a formula string, before sympy has evaluated anything
RawAdd(l, r) == [op |-> "add", l |-> l, r |-> r]
RawMul(l, r) == [op |-> "mul", l |-> l, r |-> r]
RawPow(b, k) == [op |-> "pow", b |-> b, k |-> k]
RawSub(l, r) == RawAdd(l, RawMul(Num(-1), r))

RECURSIVE Sympify(_)
\* sympy.sympify(str): None when the string does not parse
Sympify(t) ==
  CASE t.op = "syntax_error" -> SyntaxError
    [] t.op = "add" -> Add(Sympify(t.l), Sympify(t.r))
    [] t.op = "mul" -> Mul(Sympify(t.l), Sympify(t.r))
    [] t.op = "pow" -> Pow(Sympify(t.b), t.k)
    [] t.op = "fn" -> Fn(t.f, Sympify(t.u))
    [] OTHER -> t

RECURSIVE FreeSymbols(_)
\* expr.free_symbols, as the set of their names
FreeSymbols(e) ==
  CASE e.op = "sym" -> {e.name}
    [] e.op = "add" -> FreeSymbols(e.l) \cup FreeSymbols(e.r)
    [] e.op = "mul" -> FreeSymbols(e.l) \cup FreeSymbols(e.r)
    [] e.op = "pow" -> FreeSymbols(e.b)
    [] e.op = "fn" -> FreeSymbols(e.u)
    [] OTHER -> {}

RECURSIVE Functions(_)
\* the function names applied somewhere in e
Functions(e) ==
  CASE e.op = "add" -> Functions(e.l) \cup Functions(e.r)
    [] e.op = "mul" -> Functions(e.l) \cup Functions(e.r)
    [] e.op = "pow" -> Functions(e.b)
    [] e.op = "fn" -> {e.f} \cup Functions(e.u)
    [] OTHER -> {}

RECURSIVE Replace(_, _, _)
\* one pass of expr._subs(old, new): every occurrence of the symbol named old
Replace(e, old, new) ==
  CASE e.op = "sym" -> IF e.name = old THEN new ELSE e
    [] e.op = "add" -> Add(Replace(e.l, old, new), Replace(e.r, old, new))
    [] e.op = "mul" -> Mul(Replace(e.l, old, new), Replace(e.r, old, new))
    [] e.op = "pow" -> Pow(Replace(e.b, old, new), e.k)
    [] e.op = "fn" -> Fn(e.f, Replace(e.u, old, new))
    [] OTHER -> e

RECURSIVE SubsSequential(_, _)
\* expr.subs(pairs, simultaneous=False): the pairs are applied one after the
\* other, each to the result of the one before
SubsSequential(e, pairs) ==
  IF pairs = <<>> THEN e
  ELSE SubsSequential(Replace(e, pairs[1][1], pairs[1][2]), Tail(pairs))

\* d f(u) / du for the functions of the model
FnDerivative(f, u) ==
  CASE f = "cos" -> Neg(Fn("sin", u))
    [] f = "sin" -> Fn("cos", u)
    [] f = "Abs" -> Fn("sign", u)
    [] f = "sign" -> Mul(Num(2), Fn("DiracDelta", u))
    [] OTHER -> Fn("Derivative", Fn(f, u))

RECURSIVE Diff(_, _)
\* sympy.diff(e, Symbol(p))
Diff(e, p) ==
  CASE e.op = "sym" -> IF e.name = p THEN Num(1) ELSE Num(0)
    [] e.op = "add" -> Add(Diff(e.l, p), Diff(e.r, p))
    [] e.op = "mul" -> Add(Mul(Diff(e.l, p), e.r), Mul(e.l, Diff(e.r, p)))
    [] e.op = "pow" ->
         Mul(Mul(Num(e.k), Pow(e.b, e.k - 1)), Diff(e.b, p))
    [] e.op = "fn" ->
         IF p \in FreeSymbols(e.u)
         THEN Mul(FnDerivative(e.f, e.u), Diff(e.u, p))
         ELSE Num(0)
    [] OTHER -> Num(0)

RECURSIVE IntPow(_, _)
IntPow(b, k) == IF k = 0 THEN 1 ELSE b * IntPow(b, k - 1)

\* cos and sin of an angle of q quarter turns
CosQ(q) == <<1, 0, -1, 0>>[(q % 4) + 1]
SinQ(q) == <<0, 1, 0, -1>>[(q % 4) + 1]

ApplyFn(f, v) ==
  CASE f = "cos" -> CosQ(v)
    [] f = "sin" -> SinQ(v)
    [] f = "Abs" -> IF v < 0 THEN -v ELSE v
    [] f = "sign" -> IF v < 0 THEN -1 ELSE IF v = 0 THEN 0 ELSE 1
    [] OTHER -> 0

RECURSIVE Eval(_, _)
\* the value of e where env maps every free symbol's name to its value
Eval(e, env) ==
  CASE e.op = "num" -> e.v
    [] e.op = "sym" -> env[e.name]
    [] e.op = "add" -> Eval(e.l, env) + Eval(e.r, env)
    [] e.op = "mul" -> Eval(e.l, env) * Eval(e.r, env)
    [] e.op = "pow" -> IntPow(Eval(e.b, env), e.k)
    [] e.op = "fn" -> ApplyFn(e.f, Eval(e.u, env))


(***************************************************************************)
(* sympy.utilities.lambdify                                                *)
(***************************************************************************)
\* the functions sympy's numexpr printer can print (those the model uses)
NumexprFunctions == {"sin", "cos", "Abs"}

Modules == {"numpy", "numexpr"}

\* lambdify refuses an expression the numexpr printer cannot print
LambdifyFails(body, module) ==
  module = "numexpr" /\ ~(Functions(body) \subseteq NumexprFunctions)

\* lambdify(args, body, modules=module, dummify=False): a function of the
\* positional arguments args
Lambdify(args, body, module) == [args |-> args, body |-> body, module |-> module]

NoFunction == [args |-> <<>>, body |-> Num(0), module |-> "unset"]

TypeError == [error |-> "TypeError"]

\* fn(*values): a call with the wrong number of arguments raises TypeError
CallFn(fn, values) ==
  IF Len(values) # Len(fn.args) THEN TypeError
  ELSE [value |-> Eval(fn.body,
                       [n \in SeqToSet(fn.args) |->
                          values[CHOOSE i \in 1..Len(fn.args) : fn.args[i] = n]])]

(***************************************************************************)
(* Expression                                                              *)
(***************************************************************************)
\* the position argument: None/False, a str, or a pair of str
NoPosition == [kind |-> "none"]
StrPosition(n) == [kind |-> "str", name |-> n]
PairPosition(n1, n2) == [kind |-> "pair", names |-> <<n1, n2>>]

\* "if position:"
Truthy(position) == position.kind # "none"

\* position[0], position[1], ... : the characters of a str, the items of a pair
Items(position) ==
  CASE position.kind = "str" ->
         [i \in 1..Len(position.name) |-> <<position.name[i]>>]
    [] position.kind = "pair" -> position.names
    [] OTHER -> <<>>

\* "{0} + (x - {0}) * cos(rotation_angle) - (y - {1}) * sin(rotation_angle)"
RotXAbout(cx, cy) ==
  Sympify(RawSub(RawAdd(Sym(cx),
                        RawMul(RawSub(Sym(n_x), Sym(cx)),
                               Fn("cos", Sym(n_rotation_angle)))),
                 RawMul(RawSub(Sym(n_y), Sym(cy)),
                        Fn("sin", Sym(n_rotation_angle)))))

\* "{1} + (x - {0}) * sin(rotation_angle) + (y - {1}) * cos(rotation_angle)"
RotYAbout(cx, cy) ==
  Sympify(RawAdd(RawAdd(Sym(cy),
                        RawMul(RawSub(Sym(n_x), Sym(cx)),
                               Fn("sin", Sym(n_rotation_angle)))),
                 RawMul(RawSub(Sym(n_y), Sym(cy)),
                        Fn("cos", Sym(n_rotation_angle)))))

\* "x * cos(rotation_angle) - y * sin(rotation_angle)"
RotXOrigin ==
  Sympify(RawSub(RawMul(Sym(n_x), Fn("cos", Sym(n_rotation_angle))),
                 RawMul(Sym(n_y), Fn("sin", Sym(n_rotation_angle)))))

\* "x * sin(rotation_angle) + y * cos(rotation_angle)"
RotYOrigin ==
  Sympify(RawAdd(RawMul(Sym(n_x), Fn("sin", Sym(n_rotation_angle))),
                 RawMul(Sym(n_y), Fn("cos", Sym(n_rotation_angle)))))

\* expr.subs({"x": rotx, "y": roty}, simultaneous=False): sympy orders the
\* pairs of a dict (x before y) and applies them in sequence
Rotate(expr, rotx, roty) ==
  SubsSequential(expr, <<<<n_x, rotx>>, <<n_y, roty>>>>)

\* the expression compile_function differentiates and lambdifies
\* (the renaming of every symbol to a real symbol of the same name and
\* evalf() leave the tree of an integer-coefficient expression as it is)
CompiledExpr(self, position) ==
  LET expr == Sympify(self._str_expression)
      is2D == n_y \in FreeSymbols(expr)
  IN  IF is2D /\ self._add_rotation
      THEN IF Truthy(position)
           THEN Rotate(expr,
                       RotXAbout(Items(position)[1], Items(position)[2]),
                       RotYAbout(Items(position)[1], Items(position)[2]))
           ELSE Rotate(expr, RotXOrigin, RotYOrigin)
      ELSE expr

\* parameters: the free symbols that are not variables, sorted by name
ParametersOf(expr, is2D) ==
  SortByName(FreeSymbols(expr) \ (IF is2D THEN {n_x, n_y} ELSE {n_x}))

RECURSIVE GradLoop(_, _, _, _, _)
\* "for parameter in parameters": _f_grad_<p> and grad_<p> are set one
\* parameter at a time; the loop stops at the first lambdify that raises
GradLoop(self, expr, args, module, todo) ==
  IF todo = <<>> THEN [self |-> self, err |-> "none"]
  ELSE With(Diff(expr, Head(todo)), LAMBDA grad_expr :
         IF LambdifyFails(grad_expr, module)
         THEN [self |-> self, err |-> "TypeError"]
         ELSE With([self EXCEPT !.grads =
                      [n \in (DOMAIN self.grads) \cup {Head(todo)} |->
                         IF n = Head(todo)
                         THEN Lambdify(args, grad_expr, module)
                         ELSE self.grads[n]]],
                   LAMBDA self1 :
                     GradLoop(self1, expr, args, module, Tail(todo))))

\* Expression.compile_function(module, position): the object after the call
\* and the exception raised, if any
CompileFunction(self, module, position) ==
  With(Sympify(self._str_expression), LAMBDA parsed :
  IF parsed = SyntaxError THEN [self |-> self, err |-> "SympifyError"]
  ELSE IF n_x \notin FreeSymbols(parsed)
  THEN [self |-> self, err |-> "ValueError"]
  ELSE
  With(n_y \in FreeSymbols(parsed), LAMBDA is2D :
  With([self EXCEPT !._is2D = is2D], LAMBDA self1 :
  IF is2D /\ self._add_rotation /\ Truthy(position) /\ Len(Items(position)) < 2
  THEN [self |-> self1, err |-> "IndexError"]
  ELSE
  With(CompiledExpr(self, position), LAMBDA expr :
  With(ParametersOf(expr, is2D), LAMBDA parameters :
  With((IF is2D THEN <<n_x, n_y>> ELSE <<n_x>>) \o parameters, LAMBDA args :
  IF LambdifyFails(expr, module) THEN [self |-> self1, err |-> "TypeError"]
  ELSE GradLoop([self1 EXCEPT !._f = Lambdify(args, expr, module),
                              !.function = [arity |-> IF is2D THEN 2 ELSE 1],
                              !._parameter_strings = parameters],
                expr, args, module, parameters)))))))

\* a parameter value: a number, or a fitted coefficient (see Lsq below),
\* over a denominator
Number(v) == [num |-> v, den |-> 1]

NoMap == [none |-> TRUE]

\* Component.__init__(self, names): one Parameter per name, in the order given
NewParameter(name) == [name |-> name, value |-> Number(0), map |-> NoMap]

ComponentInit(self, names) ==
  [self EXCEPT !.parameters = [i \in 1..Len(names) |-> NewParameter(names[i])]]

ParameterNames(self) == [i \in 1..Len(self.parameters) |-> self.parameters[i].name]

\* what getattr(self, k) finds on an Expression once its parameters exist:
\* a Parameter, a plain function (which accepts new attributes), a bound
\* method or another object (which do not), or nothing
AttrKind(self, k) ==
  CASE k \in SeqToSet(ParameterNames(self)) -> "parameter"
    [] k \in {n_function, n__f} -> "function"
    [] \E p \in DOMAIN self.grads : k = p_f_grad_ \o p -> "function"
    [] \E p \in DOMAIN self.grads : k = p_grad_ \o p -> "method"
    [] k \in {n_is2D, n_parameters} -> "object"
    [] OTHER -> "missing"

ParameterIndex(self, k) ==
  CHOOSE i \in 1..Len(self.parameters) : self.parameters[i].name = k

RECURSIVE KwargLoop(_, _)
\* "for kwarg, value in kwargs.items():
\*      setattr(getattr(self, kwarg), 'value', value)"
KwargLoop(self, kwargs) ==
  IF kwargs = <<>> THEN [self |-> self, err |-> "none"]
  ELSE With(AttrKind(self, kwargs[1][1]), LAMBDA kind :
         CASE kind = "parameter" ->
                With([self EXCEPT
                        !.parameters[ParameterIndex(self, kwargs[1][1])].value =
                          Number(kwargs[1][2])],
                     LAMBDA self1 : KwargLoop(self1, Tail(kwargs)))
           [] kind = "function" ->
                With([self EXCEPT !.stray = @ \cup {kwargs[1][1]}],
                     LAMBDA self1 : KwargLoop(self1, Tail(kwargs)))
           [] OTHER -> [self |-> self, err |-> "AttributeError"])

\* "if position:" of __init__: the position parameters are looked up by name
SetPosition(self, position) ==
  IF ~Truthy(position) THEN [self |-> self, err |-> "none"]
  ELSE IF self._is2D
  THEN IF Len(Items(position)) < 1 \/ AttrKind(self, Items(position)[1]) = "missing"
       THEN [self |-> self, err |-> "AttributeError"]
       ELSE IF Len(Items(position)) < 2 THEN [self |-> self, err |-> "IndexError"]
       ELSE IF AttrKind(self, Items(position)[2]) = "missing"
       THEN [self |-> self, err |-> "AttributeError"]
       ELSE [self |-> [self EXCEPT !.positions = <<Items(position)[1],
                                                   Items(position)[2]>>],
             err |-> "none"]
  ELSE IF position.kind = "pair" THEN [self |-> self, err |-> "TypeError"]
  ELSE IF AttrKind(self, position.name) = "missing"
       THEN [self |-> self, err |-> "AttributeError"]
       ELSE [self |-> [self EXCEPT !.positions = <<position.name>>], err |-> "none"]

\* the object __init__ starts from: only _add_rotation and _str_expression
\* are set before compile_function runs
NewExpression(cls, expression, add_rotation) ==
  [cls |-> cls,
   _add_rotation |-> add_rotation,
   _str_expression |-> expression,
   _is2D |-> FALSE,
   _f |-> NoFunction,
   function |-> [arity |-> 0],
   _parameter_strings |-> <<>>,
   grads |-> [n \in {} |-> NoFunction],
   parameters |-> <<>>,
   whitelist |-> [expression |-> expression],
   positions |-> <<>>,
   stray |-> {}]

\* Expression.__init__(expression, name, position, module, add_rotation=..,
\* **kwargs): the object built and the exception raised, if any
ExpressionInit(cls, expression, position, module, add_rotation, kwargs) ==
  With(CompileFunction(NewExpression(cls, expression, add_rotation),
                       module, position), LAMBDA c :
  IF c.err # "none" THEN c
  ELSE
  With(ComponentInit(c.self, c.self._parameter_strings), LAMBDA self1 :
  With([self1 EXCEPT !.whitelist =
          IF self1._is2D
          THEN [expression |-> expression, position |-> position,
                module |-> module, add_rotation |-> add_rotation]
          ELSE [expression |-> expression, position |-> position,
                module |-> module]], LAMBDA self2 :
  With(SetPosition(self2, position), LAMBDA p :
  IF p.err # "none" THEN p ELSE KwargLoop(p.self, kwargs)))))

(***************************************************************************)
(* Polynomial2                                                             *)
(***************************************************************************)
\* ['{}'.format(o).zfill(len(list(str(order)))) for o in range(order, -1, -1)]
CoeffName(order, o) == <<"a">> \o ZFill(Str(o), Len(Str(order)))

RECURSIVE PolynomialFormula(_, _)
\* "+".join(["a{}*x**{}".format(c, o) ...]): the terms of degree o down to 0
PolynomialFormula(order, o) ==
  LET term == RawMul(Sym(CoeffName(order, o)), RawPow(Sym(n_x), o))
  IN  IF o = 0 THEN term ELSE RawAdd(term, PolynomialFormula(order, o - 1))

\* Polynomial2.__init__(order, module, **kwargs)
Polynomial2Init(order, module, kwargs) ==
  ExpressionInit("Polynomial2", PolynomialFormula(order, order), NoPosition,
                 module, FALSE, kwargs)

\* get_polynomial_order of Polynomial2
Polynomial2Order(self) == Len(self.parameters) - 1

(***************************************************************************)
(* Polynomial                                                              *)
(***************************************************************************)
\* Polynomial.__init__(order)
PolynomialInit(order) ==
  [cls |-> "Polynomial",
   parameters |-> <<[name |-> n_coefficients,
                     value |-> [i \in 1..(order + 1) |-> Number(0)],
                     map |-> NoMap,
                     _number_of_elements |-> order + 1]>>,
   whitelist |-> [order |-> order]]

Coefficients(self) == self.parameters[1]

\* get_polynomial_order of Polynomial
PolynomialOrder(self) == Len(Coefficients(self).value) - 1

RECURSIVE Polyval(_, _)
\* np.polyval(c, x): c[0]*x**(N-1) + ... + c[N-1], by Horner's rule
Polyval(c, x) ==
  IF c = <<>> THEN 0
  ELSE Polyval(SubSeq(c, 1, Len(c) - 1), x) * x + c[Len(c)]

\* grad_one_coefficient(x, index): values = np.array(coefficients.value);
\* values[index] = 1; np.polyval(values, x)
GradOneCoefficient(self, x, index) ==
  LET values == [i \in 1..Len(Coefficients(self).value) |->
                   IF i = index + 1 THEN 1 ELSE Coefficients(self).value[i].num]
  IN  Polyval(values, x)

\* grad_coefficients(x): np.vstack of the rows, one per coefficient
GradCoefficients(self, x) ==
  [i \in 1..Coefficients(self)._number_of_elements |->
     GradOneCoefficient(self, x, i - 1)]


(***************************************************************************)
(* The signal and numpy arrays                                             *)
(***************************************************************************)
\* The signals estimate_parameters is given: nav navigation positions,
\* NumSamples samples on the one signal axis, which is array axis
\* index_in_array (0: first, 1: after the navigation axis); cur is the
\* navigation position signal() reads; binned is what self.binned reads
\* once _estimate_parameters(signal) has run; the trace at position p has
\* the samples (p + 1) * (j + 1), so that no two traces are equal.
Signals ==
  [nav : 1..MaxNav, index_in_array : {0, 1}, cur : 0..(MaxNav - 1),
   scale : 2..MaxScale, binned : BOOLEAN]

SignalSet == {s \in Signals : s.cur < s.nav}

NoSignal == [nav |-> 0]

Sample(p, j) == (p + 1) * (j + 1)

Array(shape, flat) == [shape |-> shape, flat |-> flat]

\* element (r, c), counted from 0, of a two-dimensional array
At(A, r, c) == A.flat[r * A.shape[2] + c + 1]

\* A.T of a two-dimensional array
Transpose(A) ==
  Array(<<A.shape[2], A.shape[1]>>,
        [q \in 1..Len(A.flat) |->
           At(A, (q - 1) % A.shape[1], (q - 1) \div A.shape[1])])

\* A[i1:i2, ...]
Rows(A, i1, i2) ==
  Array(<<i2 - i1, A.shape[2]>>,
        SubSeq(A.flat, i1 * A.shape[2] + 1, i2 * A.shape[2]))

Column(A, c) == [r \in 1..A.shape[1] |-> At(A, r - 1, c)]

\* A.reshape(shape): the same buffer under another shape
Reshape(A, shape) == Array(shape, A.flat)

\* signal.data inside "with signal.unfolded()": the navigation axes are one
\* axis, the signal axis is where index_in_array says
UnfoldedData(s) ==
  IF s.index_in_array > 0
  THEN Array(<<s.nav, NumSamples>>,
             [q \in 1..(s.nav * NumSamples) |->
                Sample((q - 1) \div NumSamples, (q - 1) % NumSamples)])
  ELSE Array(<<NumSamples, s.nav>>,
             [q \in 1..(s.nav * NumSamples) |->
                Sample((q - 1) % s.nav, (q - 1) \div s.nav)])

\* signal(): the trace at the current navigation position
CurrentTrace(s) == [j \in 1..NumSamples |-> Sample(s.cur, j - 1)]

\* axis.axis: the coordinates of the samples (offset 0)
AxisValues(s) == [j \in 1..NumSamples |-> (j - 1) * s.scale]

\* the coefficient np.polyfit(xs, ys, order) returns at index row (row 0 is
\* the highest degree)
Lsq(xs, ys, order, row) ==
  [xs |-> xs, ys |-> ys, order |-> order, row |-> row, den |-> 1]

\* v / s / s: the division by the scale done twice
DivideTwice(v, s) == [v EXCEPT !.den = @ * s * s]

\* v / s
Divide(v, s) == [v EXCEPT !.den = @ * s]

\* np.polyfit(xs, ys, order) of one trace
Polyfit1D(xs, ys, order) == [i \in 1..(order + 1) |-> Lsq(xs, ys, order, i - 1)]

\* np.polyfit(xs, Y, order) of a two-dimensional Y: one fit per column,
\* the result has one row per coefficient and one column per column of Y
Polyfit2D(xs, Y, order) ==
  Array(<<order + 1, Y.shape[2]>>,
        [q \in 1..((order + 1) * Y.shape[2]) |->
           Lsq(xs, Column(Y, (q - 1) % Y.shape[2]), order,
               (q - 1) \div Y.shape[2])])

\* Component._create_arrays: a map per parameter, nothing set
CreateArrays(self, nav) ==
  [self EXCEPT !.parameters =
     [i \in 1..Len(self.parameters) |->
        [self.parameters[i] EXCEPT !.map =
           [values |-> [p \in 1..nav |-> self.parameters[i].value],
            is_set |-> [p \in 1..nav |-> FALSE]]]]]

\* Component.fetch_stored_values: every parameter takes the value its map
\* holds at the current navigation position, where one is set
FetchStoredValues(self, s) ==
  [self EXCEPT !.parameters =
     [i \in 1..Len(self.parameters) |->
        IF self.parameters[i].map.is_set[s.cur + 1]
        THEN [self.parameters[i] EXCEPT
                !.value = self.parameters[i].map.values[s.cur + 1]]
        ELSE self.parameters[i]]]

\* the window [i1, i2) axis.value_range_to_indices(x1, x2) returns
Windows == {w \in (0..NumSamples) \X (0..NumSamples) : w[1] < w[2]}

\* the fit of the whole navigation space, as both estimators compute it:
\* "if axis.index_in_array > 0: dc = dc.T", polyfit,
\* "if axis.index_in_array > 0: cmaps = cmaps.T", reshape
FitAll(s, i1, i2, order) ==
  LET dc == IF s.index_in_array > 0 THEN Transpose(UnfoldedData(s))
            ELSE UnfoldedData(s)
      cmaps == Polyfit2D(SubSeq(AxisValues(s), i1 + 1, i2), Rows(dc, i1, i2),
                         order)
      back == IF s.index_in_array > 0 THEN Transpose(cmaps) ELSE cmaps
  IN  Reshape(back, <<s.nav, order + 1>>)

\* the fit of the current trace
FitCurrent(s, i1, i2, order) ==
  Polyfit1D(SubSeq(AxisValues(s), i1 + 1, i2),
            SubSeq(CurrentTrace(s), i1 + 1, i2), order)

\* Polynomial.estimate_parameters(signal, x1, x2, only_current)
PolynomialEstimate(self, s, i1, i2, only_current) ==
  With(PolynomialOrder(self), LAMBDA order :
  IF only_current
  THEN With(FitCurrent(s, i1, i2, order), LAMBDA estimation :
         [self |-> [self EXCEPT !.parameters[1].value =
                      IF s.binned
                      THEN [i \in 1..Len(estimation) |->
                              Divide(estimation[i], s.scale)]
                      ELSE estimation],
          ret |-> "True"])
  ELSE With(IF Coefficients(self).map = NoMap
            THEN CreateArrays(self, s.nav) ELSE self, LAMBDA self1 :
       With(FitAll(s, i1, i2, order), LAMBDA cmaps :
       With([p \in 1..s.nav |->
               [k \in 1..(order + 1) |-> At(cmaps, p - 1, k - 1)]],
            LAMBDA values :
       With([self1 EXCEPT !.parameters[1].map =
               [values |-> IF s.binned
                           THEN [p \in 1..s.nav |->
                                   [k \in 1..(order + 1) |->
                                      Divide(values[p][k], s.scale)]]
                           ELSE values,
                is_set |-> [p \in 1..s.nav |-> TRUE]]], LAMBDA self2 :
       [self |-> FetchStoredValues(self2, s), ret |-> "True"])))))

\* Polynomial2.estimate_parameters(signal, x1, x2, only_current);
\* ParameterAt(i) is the index in self.parameters of self.parameters[::-1][i]
Polynomial2Estimate(self, s, i1, i2, only_current) ==
  With(Polynomial2Order(self), LAMBDA order :
  IF only_current
  THEN With(FitCurrent(s, i1, i2, order), LAMBDA estimation :
         [self |-> [self EXCEPT !.parameters =
                      [j \in 1..Len(self.parameters) |->
                         [self.parameters[j] EXCEPT !.value =
                            IF s.binned
                            THEN Divide(estimation[Len(self.parameters) + 1 - j],
                                        s.scale)
                            ELSE estimation[Len(self.parameters) + 1 - j]]]],
          ret |-> "True"])
  ELSE IF AttrKind(self, n_a0) = "missing"
  THEN [self |-> self, ret |-> "AttributeError"]
  ELSE With(IF self.parameters[ParameterIndex(self, n_a0)].map = NoMap
            THEN CreateArrays(self, s.nav) ELSE self, LAMBDA self1 :
       With(FitAll(s, i1, i2, order), LAMBDA fit :
       With([self1 EXCEPT !.parameters =
               [j \in 1..Len(self1.parameters) |->
                  [self1.parameters[j] EXCEPT !.map =
                     [values |->
                        [p \in 1..s.nav |->
                           IF s.binned
                           THEN Divide(At(fit, p - 1, Len(self1.parameters) - j),
                                       s.scale)
                           ELSE At(fit, p - 1, Len(self1.parameters) - j)],
                      is_set |-> [p \in 1..s.nav |-> TRUE]]]]], LAMBDA self2 :
       [self |-> FetchStoredValues(self2, s), ret |-> "True"]))))

(***************************************************************************)
(* Inputs                                                                  *)
(***************************************************************************)
\* "a*x + b"
F_line == RawAdd(RawMul(Sym(n_a), Sym(n_x)), Sym(n_b))
\* "a*abs(x - b)"
F_abs == RawMul(Sym(n_a), Fn("Abs", RawSub(Sym(n_x), Sym(n_b))))
\* "a*sign(x)"
F_sign == RawMul(Sym(n_a), Fn("sign", Sym(n_x)))
\* "a*(x - x0) + (y - y0)"
F_plane == RawAdd(RawMul(Sym(n_a), RawSub(Sym(n_x), Sym(n_x0))),
                  RawSub(Sym(n_y), Sym(n_y0)))
\* "a*x + y"
F_xy == RawAdd(RawMul(Sym(n_a), Sym(n_x)), Sym(n_y))
\* "a*b": no independent variable
F_nox == RawMul(Sym(n_a), Sym(n_b))
\* "a*(x": does not parse
F_bad == SyntaxError

Formulas == {F_line, F_abs, F_sign, F_plane, F_xy, F_nox, F_bad}

Positions == {NoPosition, StrPosition(n_b), PairPosition(n_x0, n_y0)}

\* **kwargs, as the (name, value) pairs in the order given
Kwargs == {<<>>} \cup {<<<<k, 1>>>> : k \in {n_a, n_zz, n_function, n_grad_a}}

Polynomial2Kwargs == {<<>>, <<<<n_a0, 1>>>>}

NoComponent == [cls |-> "none"]

(***************************************************************************)
(* Operations                                                              *)
(***************************************************************************)
\* Expression(expression, name, position, module, add_rotation, **kwargs)
ConstructExpression ==
  /\ comp = NoComponent
  /\ \E expression \in Formulas, position \in Positions, module \in Modules,
        add_rotation \in BOOLEAN, kwargs \in Kwargs :
       \E r \in {ExpressionInit("Expression", expression, position, module,
                                 add_rotation, kwargs)} :
           /\ comp' = IF r.err = "none" THEN r.self ELSE NoComponent
           /\ result' = [op |-> "init", cls |-> "Expression", err |-> r.err,
                         kwargs |-> kwargs]
  /\ UNCHANGED signal

\* Polynomial2(order, module, **kwargs)
ConstructPolynomial2 ==
  /\ comp = NoComponent
  /\ \E order \in Orders, module \in Modules, kwargs \in Polynomial2Kwargs :
       \E r \in {Polynomial2Init(order, module, kwargs)} :
           /\ comp' = IF r.err = "none" THEN r.self ELSE NoComponent
           /\ result' = [op |-> "init", cls |-> "Polynomial2", err |-> r.err,
                         kwargs |-> kwargs, order |-> order]
  /\ UNCHANGED signal

\* Polynomial(order)
ConstructPolynomial ==
  /\ comp = NoComponent
  /\ \E order \in Orders :
       /\ comp' = PolynomialInit(order)
       /\ result' = [op |-> "init", cls |-> "Polynomial", err |-> "none",
                     kwargs |-> <<>>, order |-> order]
  /\ UNCHANGED signal

\* component.compile_function(module, position) on a component built by
\* Expression itself (a Polynomial2 is compiled once, by its constructor)
Recompile ==
  /\ comp.cls = "Expression"
  /\ \E module \in Modules, position \in Positions :
       \E r \in {CompileFunction(comp, module, position)} :
           /\ comp' = r.self
           /\ result' = [op |-> "compile_function", err |-> r.err,
                         module |-> module, position |-> position]
  /\ UNCHANGED signal

\* component.<parameter>.value = v on an Expression
SetValue ==
  /\ comp.cls = "Expression"
  /\ \E i \in 1..Len(comp.parameters), v \in 0..MaxValue :
       comp' = [comp EXCEPT !.parameters[i].value = Number(v)]
  /\ result' = [op |-> "set_value"]
  /\ UNCHANGED signal

\* polynomial.coefficients.value = [v, v, ...]
SetCoefficients ==
  /\ comp.cls = "Polynomial"
  /\ \E v \in 0..MaxValue :
       comp' = [comp EXCEPT !.parameters[1].value =
                  [i \in 1..Len(@) |-> Number(v)]]
  /\ result' = [op |-> "set_value"]
  /\ UNCHANGED signal

IsNumber(v) == "num" \in DOMAIN v

\* polynomial.grad_coefficients(x), evaluated where the coefficients are
\* numbers
CallGradCoefficients ==
  /\ comp.cls = "Polynomial"
  /\ \A i \in 1..Len(Coefficients(comp).value) :
       IsNumber(Coefficients(comp).value[i])
  /\ \E x \in 0..MaxX :
       result' = [op |-> "grad_coefficients", x |-> x,
                  ret |-> GradCoefficients(comp, x)]
  /\ UNCHANGED <<comp, signal>>

\* polynomial.estimate_parameters(signal, x1, x2, only_current); a component
\* is estimated against one signal
EstimatePolynomial ==
  /\ comp.cls = "Polynomial"
  /\ \E s \in SignalSet, w \in Windows, only_current \in BOOLEAN :
       /\ signal \in {NoSignal, s}
       /\ signal' = s
       /\ \E r \in {PolynomialEstimate(comp, s, w[1], w[2], only_current)} :
              /\ comp' = r.self
              /\ result' = [op |-> "estimate_parameters", ret |-> r.ret,
                            i1 |-> w[1], i2 |-> w[2],
                            only_current |-> only_current]

\* polynomial2.estimate_parameters(signal, x1, x2, only_current)
EstimatePolynomial2 ==
  /\ comp.cls = "Polynomial2"
  /\ \E s \in SignalSet, w \in Windows, only_current \in BOOLEAN :
       /\ signal \in {NoSignal, s}
       /\ signal' = s
       /\ \E r \in {Polynomial2Estimate(comp, s, w[1], w[2], only_current)} :
              /\ comp' = r.self
              /\ result' = [op |-> "estimate_parameters", ret |-> r.ret,
                            i1 |-> w[1], i2 |-> w[2],
                            only_current |-> only_current]

Init ==
  /\ comp = NoComponent
  /\ signal = NoSignal
  /\ result = [op |-> "none"]

Next ==
  \/ ConstructExpression
  \/ ConstructPolynomial2
  \/ ConstructPolynomial
  \/ Recompile
  \/ SetValue
  \/ SetCoefficients
  \/ CallGradCoefficients
  \/ EstimatePolynomial
  \/ EstimatePolynomial2

Spec == Init /\ [][Next]_vars

\* the polynomial components alone: construction, the coefficients, the
\* gradient and estimate_parameters
NextPolynomial ==
  \/ ConstructPolynomial2
  \/ ConstructPolynomial
  \/ SetCoefficients
  \/ CallGradCoefficients
  \/ EstimatePolynomial
  \/ EstimatePolynomial2

SpecPolynomial == Init /\ [][NextPolynomial]_vars

(***************************************************************************)
(* Properties                                                              *)
(***************************************************************************)
\* the trace at navigation position p, and the part of it and of the axis
\* inside the window of the last estimate_parameters call
Trace(p) == [j \in 1..NumSamples |-> Sample(p, j - 1)]
WindowOf(seq) == SubSeq(seq, result.i1 + 1, result.i2)

\* the value without its denominator
Raw(v) == [v EXCEPT !.den = 1]

IsExpression(c) == c.cls \in {"Expression", "Polynomial2"}

Estimated ==
  /\ result.op = "estimate_parameters"
  /\ result.ret = "True"

OrderOf(c) == IF c.cls = "Polynomial" THEN PolynomialOrder(c)
              ELSE Polynomial2Order(c)

\* the Polynomial2 parameter that holds the coefficient of degree k
DegreeParameter(c, k) ==
  c.parameters[ParameterIndex(c, CoeffName(OrderOf(c), k))]

\* what the per-pixel map holds at position p for the coefficient of degree k
MapValue(c, p, k) ==
  IF c.cls = "Polynomial"
  THEN Coefficients(c).map.values[p + 1][OrderOf(c) - k + 1]
  ELSE DegreeParameter(c, k).map.values[p + 1]

\* what the parameter value holds for the coefficient of degree k
CurrentValue(c, k) ==
  IF c.cls = "Polynomial"
  THEN Coefficients(c).value[OrderOf(c) - k + 1]
  ELSE DegreeParameter(c, k).value

\* C1: after estimate_parameters(..., only_current=False) on a Polynomial or
\* a Polynomial2, the map holds at every navigation position p, for every
\* degree k, the least-squares coefficient of degree k of p's own trace over
\* the window, whether the signal axis is the first array axis or not.
C1_MapHoldsOwnFit ==
  (Estimated /\ ~result.only_current) =>
    \A p \in 0..(signal.nav - 1), k \in 0..OrderOf(comp) :
      Raw(MapValue(comp, p, k)) =
        Lsq(WindowOf(AxisValues(signal)), WindowOf(Trace(p)),
            OrderOf(comp), OrderOf(comp) - k)

\* the compiled state of an Expression that callers observe
CompiledState(c) ==
  <<c._is2D, c._f, c.function, c._parameter_strings, c.grads>>

\* C2: a compile_function call that raises leaves the compiled state (_is2D,
\* _f, function, _parameter_strings, every _f_grad_<p> and grad_<p>) as it
\* was before the call.
C2_SwapOnSuccess ==
  [][(result'.op = "compile_function" /\ result'.err # "none")
       => CompiledState(comp') = CompiledState(comp)]_vars

Compiled(c) == IsExpression(c) /\ c._f # NoFunction

Variables(c) == IF c._is2D THEN <<n_x, n_y>> ELSE <<n_x>>

IsSortedByName(names) ==
  \A i \in 1..(Len(names) - 1) : StrLess(names[i], names[i + 1])

\* C3: the parameter list of a compiled component is the free symbols of the
\* compiled expression without the variables, sorted by name, and it is the
\* order in which function and every grad_<p> hand the parameters' values to
\* the evaluators: slot i of every evaluator is the parameter named
\* _parameter_strings[i], and the i-th value passed is that parameter's.
C3_SortedPositionalParameters ==
  Compiled(comp) =>
    /\ IsSortedByName(comp._parameter_strings)
    /\ SeqToSet(comp._parameter_strings) =
         FreeSymbols(comp._f.body) \ SeqToSet(Variables(comp))
    /\ comp._f.args = Variables(comp) \o comp._parameter_strings
    /\ \A p \in SeqToSet(comp._parameter_strings) :
         /\ p \in DOMAIN comp.grads
         /\ comp.grads[p].args = comp._f.args
    /\ ParameterNames(comp) = comp._parameter_strings

RECURSIVE SubsSimultaneous(_, _, _)
\* e with x replaced by rotx and y by roty in one pass, the replacements
\* themselves left as they are
SubsSimultaneous(e, rotx, roty) ==
  CASE e.op = "sym" -> IF e.name = n_x THEN rotx
                       ELSE IF e.name = n_y THEN roty ELSE e
    [] e.op = "add" -> Add(SubsSimultaneous(e.l, rotx, roty),
                           SubsSimultaneous(e.r, rotx, roty))
    [] e.op = "mul" -> Mul(SubsSimultaneous(e.l, rotx, roty),
                           SubsSimultaneous(e.r, rotx, roty))
    [] e.op = "pow" -> Pow(SubsSimultaneous(e.b, rotx, roty), e.k)
    [] e.op = "fn" -> Fn(e.f, SubsSimultaneous(e.u, rotx, roty))
    [] OTHER -> e

\* every assignment of values to the arguments of an evaluator
Environments(fn) ==
  [SeqToSet(fn.args) -> 0..(IF MaxX > MaxValue THEN MaxX ELSE MaxValue)]

\* the position the compiled expression of comp was derived with, known
\* right after the constructor or a compile_function call
JustCompiled ==
  /\ Compiled(comp)
  /\ result.op \in {"init", "compile_function"}
  /\ result.err = "none"

PositionUsed ==
  IF result.op = "init" THEN comp.whitelist.position ELSE result.position

\* f(cx + (x-cx)cos(a) - (y-cy)sin(a), cy + (x-cx)sin(a) + (y-cy)cos(a)),
\* with cx = cy = 0 when no centre is declared
RotatedFormula(c, position) ==
  IF Truthy(position)
  THEN SubsSimultaneous(Sympify(c._str_expression),
                        RotXAbout(Items(position)[1], Items(position)[2]),
                        RotYAbout(Items(position)[1], Items(position)[2]))
  ELSE SubsSimultaneous(Sympify(c._str_expression), RotXOrigin, RotYOrigin)

\* C4: with rotation enabled on a 2D formula f, the compiled function is
\* f evaluated at the rotated x and the rotated y, both rotated forms being
\* put in place of the x and y of f only.
C4_RotationIsSimultaneous ==
  (JustCompiled /\ comp._is2D /\ comp._add_rotation) =>
    \A env \in Environments(comp._f) :
      Eval(comp._f.body, env) = Eval(RotatedFormula(comp, PositionUsed), env)

\* C5: row i of grad_coefficients(x) is x^(n-i), whatever the coefficients
\* hold.
C5_GradRowIsMonomial ==
  result.op = "grad_coefficients" =>
    \A i \in 0..PolynomialOrder(comp) :
      result.ret[i + 1] = IntPow(result.x, PolynomialOrder(comp) - i)

\* C6: a constructor given an initial value for a name that is not a
\* parameter of the formula does not succeed.
C6_UnknownKwargRejected ==
  (result.op = "init" /\ result.err = "none") =>
    \A i \in 1..Len(result.kwargs) :
      result.kwargs[i][1] \in SeqToSet(ParameterNames(comp))

\* what a new Polynomial of the same order stores for the same call
VectorForm ==
  PolynomialEstimate(PolynomialInit(Polynomial2Order(comp)), signal,
                     result.i1, result.i2, result.only_current)

\* C7: estimate_parameters on a Polynomial2 of any order n >= 1 returns True
\* as it does on a Polynomial, and the parameter of degree k then holds what
\* element n-k of the Polynomial's coefficients holds, in the value and, in
\* the full-navigation mode, in the map.
C7_SameAsVectorForm ==
  (comp.cls = "Polynomial2" /\ result.op = "estimate_parameters") =>
    /\ result.ret = "True"
    /\ VectorForm.ret = "True"
    /\ \A k \in 0..Polynomial2Order(comp) :
         /\ CurrentValue(comp, k) = CurrentValue(VectorForm.self, k)
         /\ ~result.only_current =>
              \A p \in 0..(signal.nav - 1) :
                MapValue(comp, p, k) = MapValue(VectorForm.self, p, k)

\* the raw coefficients np.polyfit gives for the traces of the signal over
\* the window of the last call
RawCoefficients ==
  {Lsq(WindowOf(AxisValues(signal)), WindowOf(Trace(p)), OrderOf(comp), r) :
     p \in 0..(signal.nav - 1), r \in 0..OrderOf(comp)}

\* the coefficients the last estimate_parameters call stored
StoredCoefficients ==
  {CurrentValue(comp, k) : k \in 0..OrderOf(comp)}
    \cup (IF result.only_current THEN {}
          ELSE {MapValue(comp, p, k) :
                  p \in 0..(signal.nav - 1), k \in 0..OrderOf(comp)})

\* C8: every coefficient estimate_parameters stores is a raw least-squares
\* coefficient over the axis scale when the component is binned, and the
\* raw coefficient itself when it is not.
C8_ScaledOnce ==
  Estimated =>
    \A v \in StoredCoefficients :
      /\ Raw(v) \in RawCoefficients
      /\ v.den = IF signal.binned THEN signal.scale ELSE 1

C8_Witness ==
  /\ Estimated
  /\ signal.binned
  /\ ~result.only_current
  /\ comp.cls = "Polynomial2"
  /\ signal.nav > 1

\* C9: Polynomial2(order=n) succeeds for every n >= 0 and has the n+1
\* parameters of the degrees 0..n; get_polynomial_order() returns n.
C9_ConstructsEveryOrder ==
  (result.op = "init" /\ result.cls = "Polynomial2" /\ result.kwargs = <<>>) =>
    /\ result.err = "none"
    /\ SeqToSet(ParameterNames(comp)) =
         {CoeffName(result.order, k) : k \in 0..result.order}
    /\ Len(comp.parameters) = result.order + 1
    /\ Polynomial2Order(comp) = result.order

\* function(x, y) with the current parameter values
FunctionValue(c, x, y) ==
  CallFn(c._f, <<x, y>> \o [i \in 1..Len(c.parameters) |->
                              c.parameters[i].value.num])

\* C10: compile_function(module=m), given no position, on a 2D Expression
\* built with add_rotation=True and a centre leaves the parameter list,
\* _is2D and the values of function(x, y) as they were.
C10_RecompileKeepsFunction ==
  [][(/\ result'.op = "compile_function"
      /\ result'.err = "none"
      /\ result'.position = NoPosition
      /\ comp._is2D
      /\ comp._add_rotation
      /\ comp.whitelist.position.kind = "pair"
      /\ comp._f.body = CompiledExpr(comp, comp.whitelist.position))
       => /\ comp'._parameter_strings = comp._parameter_strings
          /\ comp'._is2D = comp._is2D
          /\ \A x \in 0..MaxX, y \in 0..MaxX :
               FunctionValue(comp', x, y) = FunctionValue(comp, x, y)]_vars
====
